---- MODULE Spec2Model ----
(***************************************************************************)
(* A model of bin/provision_servers.py: the reconciler that provisions one *)
(* Minecraft server per entry of minecraft-servers.yaml (directory,        *)
(* server.properties, eula.txt, start/stop scripts, systemd unit) and      *)
(* removes the units of servers that are no longer provisioned.            *)
(*                                                                         *)
(* Text is modelled as sequences of tokens: a folder name is a sequence of *)
(* name pieces, "." and "/"; a file is a sequence of lines and a line is a *)
(* sequence of tokens.  YAML scalars carry their Python type.              *)
(***************************************************************************)
EXTENDS Integers, Sequences, FiniteSets, TLC

VARIABLES
    dirs,        \* directories that exist below MINECRAFT_ROOT (folder names)
    fs,          \* the files that exist: path |-> [content, mode, owner]
    pc,          \* position of main()
    args,        \* parsed command line: [update, read_only]
    hostenv,     \* what main() finds on the host: [root, mounted, config_dir]
    config,      \* the document load_config() returned
    policy,      \* the range load_port_range() returned: [min, max]
    todo,        \* ids of provisioned the for loop has not visited yet
    seen_ports,  \* main()'s seen_ports
    cur,         \* the server_id the loop is provisioning
    exit_code,   \* main()'s return value (NoExit while running)
    log,         \* the records logged by this run
    calls,       \* external commands run by this run, in order
    now,         \* the timestamp datetime.now() yields in this run
    stale_todo,  \* unit files cleanup_stale_services has not visited yet
    runs,        \* number of runs of main() started so far
    scope,       \* what this behaviour ranges over: the ids and entries of its
                 \* documents, the faults of its system calls
    probe        \* the last application of a function examined on its own

vars == << dirs, fs, pc, args, hostenv, config, policy, todo, seen_ports, cur,
           exit_code, log, calls, now, stale_todo, runs, scope, probe >>

---------------------------------------------------------------------------
(* Bounds of the model *)

\* longest folder name (in tokens) given to validate_server on its own
MaxFolderLen == 2
\* longest server.properties (in lines) given to update_server_properties on its own
MaxLines == 2
\* number of reconciler runs in a sequence of runs
MaxRuns == 2

---------------------------------------------------------------------------
(* Python values *)

\* A YAML scalar used as a port: an int, a bool, a string or null.
\* n is its numeric value (bool is a subclass of int: True == 1).
PyInt(n) == [ty |-> "int", n |-> n]
PyBool(b) == [ty |-> "bool", n |-> IF b THEN 1 ELSE 0]
PyStr == [ty |-> "str", n |-> 0]
PyNone == [ty |-> "none", n |-> 0]

\* isinstance(x, int): true of int and of bool
isinstance_int(x) == x.ty \in {"int", "bool"}

\* str(x) of a port value that passed isinstance(x, int)
str_port(x) ==
    IF x.ty = "bool" THEN (IF x.n = 1 THEN "True" ELSE "False") ELSE ToString(x.n)

\* A YAML scalar used as a folder: a string (its tokens) or not a string.
FolderStr(s) == [str |-> TRUE, s |-> s]
FolderNotStr == [str |-> FALSE, s |-> << >>]

\* sub in seq, for sequences of tokens (Python's substring test)
Contains(sub, seq) ==
    \E i \in 1..(Len(seq) - Len(sub) + 1) :
        \A j \in 1..Len(sub) : seq[i + j - 1] = sub[j]

\* Server ids.  "#1" stands for the YAML integer 1 (a key written 1: and a
\* list item written 1); the others are YAML strings.
StrIds == {"a", "b"}
IntIds == {"#1"}
Ids == StrIds \cup IntIds

\* f"{server_id}": the text of an id
str_id(id) == IF id \in IntIds THEN "1" ELSE id

RequiredKeys == {"folder", "start_command", "port"}
OptionalKeys == {"friendly_name"}

\* The value of servers[server_id]: a mapping with some keys, or anything else.
Entry(keys, folder, port) ==
    [mapping |-> TRUE, keys |-> keys, folder |-> folder, port |-> port,
     start_command |-> "run.sh", friendly_name |-> "Friendly"]
NotAMapping ==
    [mapping |-> FALSE, keys |-> {}, folder |-> FolderNotStr, port |-> PyNone,
     start_command |-> "run.sh", friendly_name |-> "Friendly"]

---------------------------------------------------------------------------
(* validate_server *)

\* validate_server without the test of folder
validate_server_no_folder_check(server_id, data, port_min, port_max) ==
    IF ~data.mapping THEN "AttributeError"
    ELSE IF RequiredKeys \ data.keys # {} THEN "ValueError"
    ELSE IF ~isinstance_int(data.port)
            \/ ~(port_min <= data.port.n /\ data.port.n <= port_max)
         THEN "ValueError"
    ELSE "ok"

\* validate_server(server_id, data, port_min, port_max): "ok" when it returns,
\* else the exception it raises.  data.keys() on a value that is no mapping
\* raises AttributeError.
validate_server(server_id, data, port_min, port_max) ==
    IF ~data.mapping THEN "AttributeError"
    ELSE IF RequiredKeys \ data.keys # {} THEN "ValueError"
    ELSE IF ~isinstance_int(data.port)
            \/ ~(port_min <= data.port.n /\ data.port.n <= port_max)
         THEN "ValueError"
    ELSE IF ~data.folder.str \/ Contains(<<".", ".">>, data.folder.s)
            \/ Contains(<<"/">>, data.folder.s)
         THEN "ValueError"
    ELSE "ok"

---------------------------------------------------------------------------
(* The host: directories, files, external commands *)

EC2_USER == "ec2-user"

\* pathlib.Path(MINECRAFT_ROOT) / folder_name / name
server_file(folder, name) == [root |-> "minecraft", folder |-> folder, name |-> <<name>>]
\* pathlib.Path(f"/etc/systemd/system/minecraft-{server_id}.service")
unit_path(server_id) ==
    [root |-> "systemd", folder |-> << >>,
     name |-> <<"minecraft-", str_id(server_id), ".service">>]
NoPath == [root |-> "", folder |-> << >>, name |-> << >>]

\* The parent directory of a path exists (/etc/systemd/system always does).
parent_exists(d, path) == path.root = "systemd" \/ path.folder \in DOMAIN d

File(content, mode, owner) == [content |-> content, mode |-> mode, owner |-> owner]

\* A log record: level, message, the id and the path it is about.
Log(lvl, msg, id, path) == [lvl |-> lvl, msg |-> msg, id |-> id, path |-> path]

\* What a function leaves behind: the host, whether it raised, what it logged.
Result(d, f, raised, logged) == [dirs |-> d, fs |-> f, raised |-> raised, log |-> logged]

\* How a host operation can go: "none" (it succeeds), "first" (its first system
\* call fails and nothing has changed), "last" (its last one fails).
Faults == {"none", "first", "last"}

\* guarded_mkdir(path, read_only): mkdir(parents=True, exist_ok=True), then chown
guarded_mkdir(d, f, folder, read_only, fault) ==
    IF read_only
    THEN Result(d, f, FALSE,
                {Log("info", "[READ-ONLY] Would create directory", "", server_file(folder, ""))})
    ELSE IF fault = "first" THEN Result(d, f, TRUE, {})
    ELSE IF fault = "last"
         THEN Result((folder :> (IF folder \in DOMAIN d THEN d[folder] ELSE "root")) @@ d,
                     f, TRUE, {})
    ELSE Result((folder :> EC2_USER) @@ d, f, FALSE,
                {Log("info", "Created directory", "", server_file(folder, ""))})

\* path.write_text(content) opens the file for writing (creating it 0644,
\* owned by root, or truncating it) and then writes the text.
opened(f, path) ==
    (path :> File(<< >>, IF path \in DOMAIN f THEN f[path].mode ELSE 644,
                  IF path \in DOMAIN f THEN f[path].owner ELSE "root")) @@ f

\* guarded_write_text with the read_only test lost
guarded_write_text_unguarded(d, f, path, content, mode, read_only, fault) ==
    IF fault = "first" \/ ~parent_exists(d, path) THEN Result(d, f, TRUE, {})
    ELSE IF fault = "last" THEN Result(d, opened(f, path), TRUE, {})
    ELSE Result(d, (path :> File(content, mode, opened(f, path)[path].owner)) @@ f,
                FALSE, {Log("info", "Wrote file", "", path)})

\* guarded_write_text(path, content, mode, read_only): write_text, then chmod
guarded_write_text(d, f, path, content, mode, read_only, fault) ==
    IF read_only
    THEN Result(d, f, FALSE, {Log("info", "[READ-ONLY] Would write to", "", path)})
    ELSE IF fault = "first" \/ ~parent_exists(d, path) THEN Result(d, f, TRUE, {})
    ELSE IF fault = "last" THEN Result(d, opened(f, path), TRUE, {})
    ELSE Result(d, (path :> File(content, mode, opened(f, path)[path].owner)) @@ f,
                FALSE, {Log("info", "Wrote file", "", path)})

\* guarded_chmod_chown(path, mode, read_only): chmod, then chown to ec2-user
guarded_chmod_chown(d, f, path, mode, read_only, fault) ==
    IF read_only
    THEN Result(d, f, FALSE, {Log("info", "[READ-ONLY] Would chmod/chown", "", path)})
    ELSE IF fault = "first" \/ path \notin DOMAIN f THEN Result(d, f, TRUE, {})
    ELSE IF fault = "last"
         THEN Result(d, (path :> File(f[path].content, mode, f[path].owner)) @@ f, TRUE, {})
    ELSE Result(d, (path :> File(f[path].content, mode, EC2_USER)) @@ f, FALSE, {})

\* An external command run by run_cmd.
Cmd(prog, verb, arg) == [prog |-> prog, verb |-> verb, arg |-> arg, rc |-> 0]
\* run_cmd(cmd, check): the command is run; fails: it exits with a status
\* that is not zero (what the caller makes of it depends on check).
run_cmd(cs, cmd, fails) == Append(cs, [cmd EXCEPT !.rc = IF fails THEN 1 ELSE 0])

\* guarded_systemctl(commands, read_only)
guarded_systemctl(cs, commands, read_only) ==
    IF read_only
    THEN [calls |-> cs,
          log |-> {Log("info", "[READ-ONLY] Would run: systemctl", commands, NoPath)}]
    ELSE [calls |-> Append(cs, Cmd("systemctl", commands, "")),
          log |-> {Log("info", "Executed: systemctl", commands, NoPath)}]

---------------------------------------------------------------------------
(* Text helpers *)

\* line.strip(): the line without its leading and trailing whitespace tokens
RECURSIVE lstrip(_)
lstrip(line) ==
    IF line # << >> /\ Head(line) = " " THEN lstrip(Tail(line)) ELSE line
RECURSIVE rstrip(_)
rstrip(line) ==
    IF line # << >> /\ line[Len(line)] = " "
    THEN rstrip(SubSeq(line, 1, Len(line) - 1)) ELSE line
strip(line) == rstrip(lstrip(line))

\* index of the first "=" of a line that has one
first_eq(line) == CHOOSE i \in 1..Len(line) : line[i] = "=" /\ \A j \in 1..(i - 1) : line[j] # "="

\* The order of str comparison on the tokens used in property keys and values
\* (code points: space, '#', digits, '=', upper case, lower case).
TokenOrder ==
    <<" ", "#", "1", "2", "7", "=", "True", "hello", "motd", "query.port", "server-port", "world">>
rank(t) == CHOOSE i \in 1..Len(TokenOrder) : TokenOrder[i] = t

\* a < b for two keys (lexicographic, as str.__lt__)
RECURSIVE key_less(_, _)
key_less(a, b) ==
    IF b = << >> THEN FALSE
    ELSE IF a = << >> THEN TRUE
    ELSE IF rank(Head(a)) # rank(Head(b)) THEN rank(Head(a)) < rank(Head(b))
    ELSE key_less(Tail(a), Tail(b))

\* sorted(keys)
RECURSIVE sorted(_)
sorted(keys) ==
    IF keys = {} THEN << >>
    ELSE LET m == CHOOSE k \in keys : \A o \in keys \ {k} : key_less(k, o)
         IN  <<m>> \o sorted(keys \ {m})

\* text.lower(), token by token
lower(t) ==
    CASE t = "EULA" -> "eula"
      [] t = "TRUE" -> "true"
      [] t = "True" -> "true"
      [] t = "FALSE" -> "false"
      [] OTHER -> t
lower_line(line) == [i \in 1..Len(line) |-> lower(line[i])]

---------------------------------------------------------------------------
(* server.properties *)

KEY_SERVER_PORT == <<"server-port">>
KEY_QUERY_PORT == <<"query.port">>

\* The for loop of update_server_properties over the lines of the file:
\* props after the first n lines.
RECURSIVE read_props(_, _)
read_props(lines, n) ==
    IF n = 0 THEN << >>
    ELSE LET before == read_props(lines, n - 1)
             line == strip(lines[n])
         IN  IF line # << >> /\ Head(line) # "#" /\ (\E i \in 1..Len(line) : line[i] = "=")
             THEN LET i == first_eq(line)
                      k == strip(SubSeq(line, 1, i - 1))
                      v == strip(SubSeq(line, i + 1, Len(line)))
                  IN  (k :> v) @@ before
             ELSE before

\* props_content that writes every value behind an escape character, which
\* the parse loop does not take off again
props_content_escaping(props, ts) ==
    LET keys == sorted(DOMAIN props)
    IN  << <<"#", "Updated by provision_servers.py on", ts>> >>
        \o [i \in 1..Len(keys) |-> keys[i] \o <<"=", "\\">> \o props[keys[i]]]
        \o << << >> >>

\* The text update_server_properties writes for props: header comment, the
\* keys in sorted order, a closing empty line.
props_content(props, ts) ==
    LET keys == sorted(DOMAIN props)
    IN  << <<"#", "Updated by provision_servers.py on", ts>> >>
        \o [i \in 1..Len(keys) |-> keys[i] \o <<"=">> \o props[keys[i]]]
        \o << << >> >>

\* merged_props as a blind overwrite: the file is not read
merged_props_overwrite(d, f, folder, port) ==
    (KEY_QUERY_PORT :> <<str_port(port)>>) @@ (KEY_SERVER_PORT :> <<str_port(port)>>)

\* The props dictionary update_server_properties builds for a port.
merged_props(d, f, folder, port) ==
    LET props_path == server_file(folder, "server.properties")
        props == IF props_path \in DOMAIN f
                 THEN read_props(f[props_path].content, Len(f[props_path].content))
                 ELSE << >>
    IN  (KEY_QUERY_PORT :> <<str_port(port)>>)
        @@ ((KEY_SERVER_PORT :> <<str_port(port)>>) @@ props)

\* update_server_properties(folder_path, port, read_only)
update_server_properties(d, f, folder, port, read_only, ts, fault) ==
    guarded_write_text(d, f, server_file(folder, "server.properties"),
                       props_content(merged_props(d, f, folder, port), ts),
                       644, read_only, fault)

---------------------------------------------------------------------------
(* eula.txt *)

\* The text ensure_eula_accepted writes.
GeneratedEula ==
    << <<"#", "Generated by provision_servers.py">>,
       <<"#", "Please read and accept the Minecraft EULA">>,
       <<"eula", "=", "true">> >>

\* "eula=true" in f.read().lower()
eula_accepted(content) ==
    \E i \in 1..Len(content) : Contains(<<"eula", "=", "true">>, lower_line(content[i]))

\* ensure_eula_accepted that rewrites a marker that is not accepted
ensure_eula_accepted_fixing(d, f, folder, server_id, read_only, fault) ==
    LET eula_path == server_file(folder, "eula.txt")
    IN  IF eula_path \notin DOMAIN f \/ ~eula_accepted(f[eula_path].content)
        THEN guarded_write_text(d, f, eula_path, GeneratedEula, 644, read_only, fault)
        ELSE Result(d, f, FALSE, {})

\* ensure_eula_accepted(folder_path, server_id, read_only)
ensure_eula_accepted(d, f, folder, server_id, read_only, fault) ==
    LET eula_path == server_file(folder, "eula.txt")
    IN  IF eula_path \notin DOMAIN f
        THEN LET w == guarded_write_text(d, f, eula_path, GeneratedEula, 644, read_only, fault)
             IN  IF w.raised \/ read_only THEN w
                 ELSE [w EXCEPT !.log = @ \cup
                          {Log("info", "Created eula.txt with eula=true", str_id(server_id), eula_path)}]
        ELSE IF ~eula_accepted(f[eula_path].content)
        THEN Result(d, f, FALSE,
                    {Log("warning", "EULA not accepted", str_id(server_id), eula_path)})
        ELSE Result(d, f, FALSE, {})

---------------------------------------------------------------------------
(* Generated scripts and unit *)

\* The text of start-minecraft.sh: the template with server_id, folder_path
\* and start_cmd substituted.
start_script_content(folder, server_id, start_cmd) ==
    << <<"#", "start-minecraft.sh">>,
       <<"#", "Auto-generated for server", str_id(server_id)>>,
       <<"#", "Placed in", "minecraft", "/">> \o folder,
       <<"restart", "minecraft-", str_id(server_id)>>,
       <<"SESSION_NAME", "=", "minecraft-", str_id(server_id)>>,
       <<"screen", start_cmd>> >>

\* The text of stop-minecraft.sh.
stop_script_content(server_id) ==
    << <<"#", "stop-minecraft.sh">>,
       <<"#", "Auto-generated for server", str_id(server_id)>>,
       <<"SESSION_NAME", "=", "minecraft-", str_id(server_id)>>,
       <<"screen", "/stop">> >>

\* How writing a script can go: the faults of guarded_write_text, or "perm":
\* the chown of guarded_chmod_chown fails.
ScriptFaults == Faults \cup {"perm"}

\* Write a script, and outside read-only mode chmod and chown it.
write_script(d, f, path, content, read_only, fault) ==
    LET w == guarded_write_text(d, f, path, content, 755, read_only,
                                IF fault = "perm" THEN "none" ELSE fault)
    IN  IF w.raised \/ read_only THEN w
        ELSE LET c == guarded_chmod_chown(w.dirs, w.fs, path, 755, read_only,
                                          IF fault = "perm" THEN "last" ELSE "none")
             IN  [c EXCEPT !.log = @ \cup w.log]

\* generate_start_script(folder_path, server_id, start_cmd, read_only)
generate_start_script(d, f, folder, server_id, start_cmd, read_only, fault) ==
    write_script(d, f, server_file(folder, "start-minecraft.sh"),
                 start_script_content(folder, server_id, start_cmd), read_only, fault)

\* generate_stop_script(folder_path, server_id, read_only)
generate_stop_script(d, f, folder, server_id, read_only, fault) ==
    write_script(d, f, server_file(folder, "stop-minecraft.sh"),
                 stop_script_content(server_id), read_only, fault)

\* The text of the unit: friendly name, id and folder substituted.
unit_content(server_id, data) ==
    LET friendly == IF "friendly_name" \in data.keys
                    THEN data.friendly_name ELSE str_id(server_id)
        folder == data.folder.s
    IN  << <<"Description", friendly, str_id(server_id)>>,
           <<"User", EC2_USER>>,
           <<"WorkingDirectory", "minecraft", "/">> \o folder,
           <<"ExecStart", "minecraft", "/">> \o folder \o <<"/", "start-minecraft.sh">>,
           <<"ExecStop", "minecraft", "/">> \o folder \o <<"/", "stop-minecraft.sh">>,
           <<"TimeoutStopSec", "90">> >>

\* generate_systemd_unit(server_id, data, read_only)
generate_systemd_unit(d, f, server_id, data, read_only, fault) ==
    guarded_write_text(d, f, unit_path(server_id), unit_content(server_id, data),
                       644, read_only, fault)

---------------------------------------------------------------------------
(* Stale units *)

\* unit_dir.glob("minecraft-*.service"): the unit files that exist
unit_files(f) ==
    {p \in DOMAIN f : p.root = "systemd" /\ Len(p.name) = 3
                      /\ p.name[1] = "minecraft-" /\ p.name[3] = ".service"}

\* stem[len("minecraft-"):] of a unit file
srv_id_of(unit_file) == unit_file.name[2]

\* srv_id in current_provisioned: a str equals an element of the set only if
\* that element is a str with the same text.
in_provisioned(srv_id, current_provisioned) ==
    \E i \in current_provisioned : i \in StrIds /\ i = srv_id

\* cleanup_unit that deletes a stale unit without disabling its service
cleanup_unit_no_disable(f, cs, unit_file, current_provisioned, read_only, disable_fails, unlink_fails) ==
    LET srv_id == srv_id_of(unit_file)
    IN  IF in_provisioned(srv_id, current_provisioned) \/ read_only
        THEN [fs |-> f, calls |-> cs, log |-> {}]
        ELSE [fs |-> [p \in DOMAIN f \ {unit_file} |-> f[p]], calls |-> cs,
              log |-> {Log("info", "Removed stale unit", srv_id, unit_file)}]

\* cleanup_unit that also deletes the files in the working directory the
\* stale unit names
cleanup_unit_removing_data(f, cs, unit_file, current_provisioned, read_only, disable_fails, unlink_fails) ==
    LET srv_id == srv_id_of(unit_file)
        wd == f[unit_file].content[3]
        folder == SubSeq(wd, 4, Len(wd))
        gone == {unit_file} \cup { p \in DOMAIN f : p.root = "minecraft" /\ p.folder = folder }
    IN  IF in_provisioned(srv_id, current_provisioned) \/ read_only
        THEN [fs |-> f, calls |-> cs, log |-> {}]
        ELSE [fs |-> [p \in DOMAIN f \ gone |-> f[p]],
              calls |-> run_cmd(cs, Cmd("systemctl", "disable --now", srv_id), disable_fails),
              log |-> {Log("info", "Found stale service", srv_id, unit_file),
                       Log("info", "Removed stale unit", srv_id, unit_file)}]

\* The body of cleanup_stale_services' loop for one unit file: log, disable
\* --now (check=False: its exit status is ignored), unlink (a failure is logged).
cleanup_unit(f, cs, unit_file, current_provisioned, read_only, disable_fails, unlink_fails) ==
    LET srv_id == srv_id_of(unit_file)
        found == {Log("info", "Found stale service", srv_id, unit_file)}
    IN  IF in_provisioned(srv_id, current_provisioned)
        THEN [fs |-> f, calls |-> cs, log |-> {}]
        ELSE IF read_only
        THEN [fs |-> f, calls |-> cs,
              log |-> found \cup
                      {Log("info", "[READ-ONLY] Would disable --now and remove", srv_id, unit_file)}]
        ELSE LET cs2 == run_cmd(cs, Cmd("systemctl", "disable --now", srv_id), disable_fails)
             IN  IF unlink_fails
                 THEN [fs |-> f, calls |-> cs2,
                       log |-> found \cup {Log("warning", "Failed to remove", srv_id, unit_file)}]
                 ELSE [fs |-> [p \in DOMAIN f \ {unit_file} |-> f[p]], calls |-> cs2,
                       log |-> found \cup {Log("info", "Removed stale unit", srv_id, unit_file)}]

---------------------------------------------------------------------------
(* The documents main() loads *)

F1 == <<"f1">>
F2 == <<"f2">>

\* The entries a desired-state document of the model is made of: three valid
\* ones (two of them on the same port, two of them in the same folder), one
\* with a path-traversal folder, one with a port outside the range, one with
\* a port that is a string, one without start_command, and a value that is
\* no mapping.
ValidEntries ==
    { Entry(RequiredKeys, FolderStr(F1), PyInt(1)),
      Entry(RequiredKeys, FolderStr(F2), PyInt(1)),
      Entry(RequiredKeys \cup {"friendly_name"}, FolderStr(F2), PyInt(2)) }
Catalogue ==
    ValidEntries
    \cup { Entry(RequiredKeys, FolderStr(<<".", ".", "/", "f1">>), PyInt(1)),
           Entry(RequiredKeys, FolderStr(F1), PyInt(3)),
           Entry(RequiredKeys, FolderStr(F1), PyStr),
           Entry(RequiredKeys \ {"start_command"}, FolderStr(F1), PyInt(2)),
           NotAMapping }

\* minecraft-servers.yaml as load_config returns it: a servers mapping and
\* the provisioned list (main() only ever uses set(provisioned)).
Docs(ids, entries) ==
    { [servers |-> s, provisioned |-> p] :
        s \in UNION { [D -> entries] : D \in SUBSET ids }, p \in SUBSET ids }

NoConfig == [servers |-> << >>, provisioned |-> {}]

\* game-ports.json as load_port_range returns it.
Policies == { [min |-> 1, max |-> 2] }
NoPolicy == [min |-> 0, max |-> 0]

NoId == ""
NoExit == 0 - 1
\* A function examined on its own: its name, whether it has been applied,
\* its arguments (data, pol for validate_server; before, port, read_only for
\* update_server_properties) and what it did (result, raised).
Probe(fn, done, data, pol, result, before, port, read_only, raised) ==
    [fn |-> fn, done |-> done, data |-> data, pol |-> pol, result |-> result,
     before |-> before, port |-> port, read_only |-> read_only, raised |-> raised]
NoProbe == Probe("", FALSE, NotAMapping, NoPolicy, "", << >>, PyNone, FALSE, FALSE)

---------------------------------------------------------------------------
(* main() *)

\* ensure_config_repo(read_only): clone when CONFIG_LOCAL_DIR is absent,
\* else pull.  git_fails: the git command exits non-zero (run_cmd raises).
ensure_config_repo(env, cs, read_only, git_fails) ==
    IF ~env.config_dir
    THEN IF read_only
         THEN [env |-> env, calls |-> cs, raised |-> FALSE,
               log |-> {Log("info", "[READ-ONLY] Would clone config repo", "", NoPath)}]
         ELSE [env |-> [env EXCEPT !.config_dir = ~git_fails],
               calls |-> run_cmd(cs, Cmd("git", "clone", ""), git_fails), raised |-> git_fails,
               log |-> {Log("info", "Cloning config repo", "", NoPath)}]
    ELSE [env |-> env, calls |-> run_cmd(cs, Cmd("git", "pull", ""), git_fails),
          raised |-> git_fails,
          log |-> {Log("info", "Updating config repo", "", NoPath)}]

\* Whether an external command or an unlink may fail: only in a behaviour
\* whose system calls have faults.
CommandFails == IF scope.faults = {"none"} THEN {FALSE} ELSE BOOLEAN

\* except Exception: logger.exception(...); return 1
Fatal(logged) ==
    /\ pc' = "done"
    /\ exit_code' = 1
    /\ log' = log \cup logged \cup {Log("error", "Fatal error during provisioning", "", NoPath)}

\* if os.geteuid() != 0: ... return 1
CheckRoot ==
    /\ pc = "main"
    /\ IF ~hostenv.root
       THEN /\ pc' = "done"
            /\ exit_code' = 1
            /\ log' = log \cup {Log("error", "This script must run as root", "", NoPath)}
       ELSE /\ pc' = "mount"
            /\ log' = log \cup {Log("info", "Running as root", "", NoPath)}
            /\ UNCHANGED exit_code
    /\ UNCHANGED << dirs, fs, args, hostenv, config, policy, todo, seen_ports, cur,
                    calls, now, stale_todo, runs, scope, probe >>

\* CheckMount that only logs when the volume is not mounted and goes on
CheckMount_going_on ==
    /\ pc = "mount"
    /\ pc' = "refresh"
    /\ log' = IF hostenv.mounted THEN log
              ELSE log \cup {Log("error", "Persistent volume does not appear to be mounted",
                                 "", NoPath)}
    /\ UNCHANGED << dirs, fs, args, hostenv, config, policy, todo, seen_ports, cur,
                    exit_code, calls, now, stale_todo, runs, scope, probe >>

\* if not pathlib.Path(PERSIST_ROOT).is_mount(): ... return 1
CheckMount ==
    /\ pc = "mount"
    /\ IF ~hostenv.mounted
       THEN /\ pc' = "done"
            /\ exit_code' = 1
            /\ log' = log \cup {Log("error", "Persistent volume does not appear to be mounted", "", NoPath)}
       ELSE /\ pc' = "refresh"
            /\ UNCHANGED << exit_code, log >>
    /\ UNCHANGED << dirs, fs, args, hostenv, config, policy, todo, seen_ports, cur,
                    calls, now, stale_todo, runs, scope, probe >>

\* if args.update: ensure_config_repo(args.read_only)
Refresh ==
    /\ pc = "refresh"
    /\ IF args.update
       THEN \E git_fails \in CommandFails :
              LET r == ensure_config_repo(hostenv, calls, args.read_only, git_fails)
              IN  /\ hostenv' = r.env
                  /\ calls' = r.calls
                  /\ IF r.raised THEN Fatal(r.log)
                     ELSE /\ pc' = "load"
                          /\ log' = log \cup r.log
                          /\ UNCHANGED exit_code
       ELSE /\ pc' = "load"
            /\ UNCHANGED << hostenv, calls, log, exit_code >>
    /\ UNCHANGED << dirs, fs, args, config, policy, todo, seen_ports, cur,
                    now, stale_todo, runs, scope, probe >>

\* What load_config and load_port_range can raise.
LoadErrors ==
    {"Config file not found", "Config missing or invalid 'servers' mapping",
     "Config missing or invalid 'provisioned' list", "Ports config not found"}

\* config = load_config(); port_min, port_max = load_port_range();
\* provisioned = set(config["provisioned"]); seen_ports = set()
\* The config file lies in CONFIG_LOCAL_DIR: without that directory it is not found.
Load ==
    /\ pc = "load"
    /\ \/ /\ hostenv.config_dir
          /\ \E doc \in Docs(scope.ids, scope.entries), pol \in Policies :
                /\ config' = doc
                /\ policy' = pol
                /\ todo' = doc.provisioned
          /\ seen_ports' = {}
          /\ pc' = "loop"
          /\ UNCHANGED << exit_code, log >>
       \/ /\ \E e \in LoadErrors :
                /\ (~hostenv.config_dir => e = "Config file not found")
                /\ Fatal({Log("error", e, "", NoPath)})
          /\ UNCHANGED << config, policy, todo, seen_ports >>
    /\ UNCHANGED << dirs, fs, args, hostenv, cur, calls, now, stale_todo, runs, scope, probe >>

\* entry_verdict that provisions an entry validate_server rejected
entry_verdict_no_validation(cfg, pol, seen, server_id) ==
    IF server_id \notin DOMAIN cfg.servers THEN "undefined"
    ELSE LET data == cfg.servers[server_id]
             v == validate_server(server_id, data, pol.min, pol.max)
         IN  IF v \notin {"ValueError", "ok"} THEN "raise"
             ELSE IF data.port.n \in seen THEN "duplicate"
             ELSE "provision"

\* entry_verdict that skips every entry whose port another provisioned,
\* defined entry has too (no first-seen winner)
entry_verdict_no_winner(cfg, pol, seen, server_id) ==
    IF server_id \notin DOMAIN cfg.servers THEN "undefined"
    ELSE LET data == cfg.servers[server_id]
             v == validate_server(server_id, data, pol.min, pol.max)
         IN  IF v = "ValueError" THEN "invalid"
             ELSE IF v # "ok" THEN "raise"
             ELSE IF \/ data.port.n \in seen
                     \/ \E o \in (cfg.provisioned \cap DOMAIN cfg.servers) \ {server_id} :
                           cfg.servers[o].port.n = data.port.n
                  THEN "duplicate"
             ELSE "provision"

\* entry_verdict without the seen_ports test
entry_verdict_no_dup_check(cfg, pol, seen, server_id) ==
    IF server_id \notin DOMAIN cfg.servers THEN "undefined"
    ELSE LET data == cfg.servers[server_id]
             v == validate_server(server_id, data, pol.min, pol.max)
         IN  IF v = "ValueError" THEN "invalid"
             ELSE IF v # "ok" THEN "raise"
             ELSE "provision"

\* What main()'s for loop does with server_id before provision_server:
\* "undefined", "invalid" (validate_server raised ValueError), "raise" (it
\* raised something else), "duplicate" (port in seen_ports) or "provision".
entry_verdict(cfg, pol, seen, server_id) ==
    IF server_id \notin DOMAIN cfg.servers THEN "undefined"
    ELSE LET data == cfg.servers[server_id]
             v == validate_server(server_id, data, pol.min, pol.max)
         IN  IF v = "ValueError" THEN "invalid"
             ELSE IF v # "ok" THEN "raise"
             ELSE IF data.port.n \in seen THEN "duplicate"
             ELSE "provision"

\* One iteration of  for server_id in provisioned:  up to the call of
\* provision_server (whose first statement, the log record, is included).
\* The iteration order of a set is arbitrary.
LoopHead ==
    /\ pc = "loop"
    /\ \E server_id \in todo :
          LET verdict == entry_verdict(config, policy, seen_ports, server_id)
          IN  /\ todo' = todo \ {server_id}
              /\ CASE verdict = "undefined" ->
                        /\ log' = log \cup {Log("error", "Provisioned server not defined in 'servers'",
                                                server_id, NoPath)}
                        /\ UNCHANGED << pc, exit_code, seen_ports, cur >>
                   [] verdict = "invalid" ->
                        /\ log' = log \cup {Log("error", "skipping (invalid)", server_id, NoPath)}
                        /\ UNCHANGED << pc, exit_code, seen_ports, cur >>
                   [] verdict = "raise" ->
                        /\ Fatal({})
                        /\ UNCHANGED << seen_ports, cur >>
                   [] verdict = "duplicate" ->
                        /\ log' = log \cup {Log("error", "Duplicate port - skipping", server_id, NoPath)}
                        /\ UNCHANGED << pc, exit_code, seen_ports, cur >>
                   [] verdict = "provision" ->
                        /\ seen_ports' = seen_ports \cup {config.servers[server_id].port.n}
                        /\ cur' = server_id
                        /\ pc' = "mkdir"
                        /\ log' = log \cup
                             {Log("info", IF args.read_only THEN "[READ-ONLY] Would provision server"
                                          ELSE "Provisioning server", server_id, NoPath)}
                        /\ UNCHANGED exit_code
    /\ UNCHANGED << dirs, fs, args, hostenv, config, policy, calls, now, stale_todo, runs, scope, probe >>

\* Statement that goes on with the next statement when one has raised
Statement_going_on(r, next_pc) ==
    /\ dirs' = r.dirs
    /\ fs' = r.fs
    /\ pc' = next_pc
    /\ log' = log \cup r.log
    /\ cur' = IF next_pc = "loop" THEN NoId ELSE cur
    /\ UNCHANGED exit_code
    /\ UNCHANGED << args, hostenv, config, policy, todo, seen_ports, calls, now,
                    stale_todo, runs, scope, probe >>

\* A statement of provision_server: its effect on the host, then the next
\* statement, or the exception handler of main() when it raised.  cur keeps
\* the id until provision_server returns.
Statement(r, next_pc) ==
    /\ dirs' = r.dirs
    /\ fs' = r.fs
    /\ IF r.raised
       THEN /\ Fatal(r.log)
            /\ UNCHANGED cur
       ELSE /\ pc' = next_pc
            /\ log' = log \cup r.log
            /\ cur' = IF next_pc = "loop" THEN NoId ELSE cur
            /\ UNCHANGED exit_code
    /\ UNCHANGED << args, hostenv, config, policy, todo, seen_ports, calls, now,
                    stale_todo, runs, scope, probe >>

data_of(server_id) == config.servers[server_id]
folder_of(server_id) == config.servers[server_id].folder.s

\* guarded_mkdir(folder_path, read_only)
Mkdir ==
    /\ pc = "mkdir"
    /\ \E fault \in scope.faults \cap Faults :
          Statement(guarded_mkdir(dirs, fs, folder_of(cur), args.read_only, fault), "props")

\* update_server_properties(folder_path, port, read_only)
Props ==
    /\ pc = "props"
    /\ \E fault \in scope.faults \cap Faults :
          Statement(update_server_properties(dirs, fs, folder_of(cur), data_of(cur).port,
                                             args.read_only, now, fault), "eula")

\* Eula after which provision_server goes straight to the unit definition
Eula_then_unit ==
    /\ pc = "eula"
    /\ \E fault \in scope.faults \cap Faults :
          Statement(ensure_eula_accepted(dirs, fs, folder_of(cur), cur, args.read_only, fault),
                    "unit")

\* ensure_eula_accepted(folder_path, server_id, read_only)
Eula ==
    /\ pc = "eula"
    /\ \E fault \in scope.faults \cap Faults :
          Statement(ensure_eula_accepted(dirs, fs, folder_of(cur), cur, args.read_only, fault),
                    "start_script")

\* generate_start_script(folder_path, server_id, start_cmd, read_only)
StartScript ==
    /\ pc = "start_script"
    /\ \E fault \in scope.faults :
          Statement(generate_start_script(dirs, fs, folder_of(cur), cur,
                                          data_of(cur).start_command, args.read_only, fault),
                    "stop_script")

\* generate_stop_script(folder_path, server_id, read_only)
StopScript ==
    /\ pc = "stop_script"
    /\ \E fault \in scope.faults :
          Statement(generate_stop_script(dirs, fs, folder_of(cur), cur, args.read_only, fault),
                    "unit")

\* generate_systemd_unit(server_id, data, read_only); provision_server returns
Unit ==
    /\ pc = "unit"
    /\ \E fault \in scope.faults \cap Faults :
          Statement(generate_systemd_unit(dirs, fs, cur, data_of(cur), args.read_only, fault),
                    "loop")

\* The for loop is over.  if not args.read_only: cleanup_stale_services(...)
\* and daemon-reload; else "Provisioning run complete." and return 0.
LoopEnd ==
    /\ pc = "loop"
    /\ todo = {}
    /\ IF args.read_only
       THEN /\ pc' = "done"
            /\ exit_code' = 0
            /\ log' = log \cup {Log("info", "Provisioning run complete.", "", NoPath)}
            /\ UNCHANGED stale_todo
       ELSE /\ pc' = "cleanup"
            /\ stale_todo' = unit_files(fs)
            /\ UNCHANGED << exit_code, log >>
    /\ UNCHANGED << dirs, fs, args, hostenv, config, policy, todo, seen_ports, cur,
                    calls, now, runs, scope, probe >>

\* One iteration of the loop of cleanup_stale_services(provisioned, read_only).
Cleanup ==
    /\ pc = "cleanup"
    /\ \E unit_file \in stale_todo, disable_fails \in CommandFails, unlink_fails \in CommandFails :
          LET r == cleanup_unit(fs, calls, unit_file, config.provisioned,
                                args.read_only, disable_fails, unlink_fails)
          IN  /\ fs' = r.fs
              /\ calls' = r.calls
              /\ log' = log \cup r.log
              /\ stale_todo' = stale_todo \ {unit_file}
    /\ UNCHANGED << dirs, pc, args, hostenv, config, policy, todo, seen_ports, cur,
                    exit_code, now, runs, scope, probe >>

\* Reload that does not wait for the stale units to be cleaned up
Reload_before_cleanup ==
    /\ pc = "cleanup"
    /\ calls' = guarded_systemctl(calls, "daemon-reload", args.read_only).calls
    /\ pc' = "done"
    /\ exit_code' = 0
    /\ log' = log \cup {Log("info", "Provisioning run complete.", "", NoPath)}
    /\ UNCHANGED << dirs, fs, args, hostenv, config, policy, todo, seen_ports, cur,
                    now, stale_todo, runs, scope, probe >>

\* Reload that returns 1 when an entry was skipped
Reload_failing_on_skips ==
    /\ pc = "cleanup"
    /\ stale_todo = {}
    /\ calls' = guarded_systemctl(calls, "daemon-reload", args.read_only).calls
    /\ pc' = "done"
    /\ exit_code' = IF \E r \in log : r.lvl = "error" THEN 1 ELSE 0
    /\ log' = log \cup {Log("info", "Provisioning run complete.", "", NoPath)}
    /\ UNCHANGED << dirs, fs, args, hostenv, config, policy, todo, seen_ports, cur,
                    now, stale_todo, runs, scope, probe >>

\* guarded_systemctl(["daemon-reload"], read_only); "Provisioning run
\* complete."; return 0.  systemctl_fails: run_cmd raises.
Reload ==
    /\ pc = "cleanup"
    /\ stale_todo = {}
    /\ \E systemctl_fails \in CommandFails :
          LET r == guarded_systemctl(calls, "daemon-reload", args.read_only)
          IN  /\ calls' = IF systemctl_fails /\ ~args.read_only
                          THEN [r.calls EXCEPT ![Len(r.calls)].rc = 1]
                          ELSE r.calls
              /\ IF systemctl_fails /\ ~args.read_only THEN Fatal({})
                 ELSE /\ pc' = "done"
                      /\ exit_code' = 0
                      /\ log' = log \cup r.log
                                    \cup {Log("info", "Provisioning run complete.", "", NoPath)}
    /\ UNCHANGED << dirs, fs, args, hostenv, config, policy, todo, seen_ports, cur,
                    now, stale_todo, runs, scope, probe >>

---------------------------------------------------------------------------
(* One run of main() *)

EmptyHost == [dirs |-> << >>, fs |-> << >>]

\* provision_server(server_id, data, read_only) when no system call fails:
\* the six statements in their order.
provision_server(d, f, server_id, data, read_only, ts) ==
    LET folder == data.folder.s
        r1 == guarded_mkdir(d, f, folder, read_only, "none")
        r2 == update_server_properties(r1.dirs, r1.fs, folder, data.port, read_only, ts, "none")
        r3 == ensure_eula_accepted(r2.dirs, r2.fs, folder, server_id, read_only, "none")
        r4 == generate_start_script(r3.dirs, r3.fs, folder, server_id, data.start_command,
                                    read_only, "none")
        r5 == generate_stop_script(r4.dirs, r4.fs, folder, server_id, read_only, "none")
        r6 == generate_systemd_unit(r5.dirs, r5.fs, server_id, data, read_only, "none")
    IN  [dirs |-> r6.dirs, fs |-> r6.fs]

\* A host in use: an earlier run provisioned "a" (f1, port 1) and "b" (f2,
\* port 2); since then the operator has replaced f1/eula.txt by one that does
\* not accept and has added a key to f2/server.properties.
UsedHost ==
    LET h1 == provision_server(EmptyHost.dirs, EmptyHost.fs, "a",
                               Entry(RequiredKeys, FolderStr(F1), PyInt(1)), FALSE, "t0")
        h2 == provision_server(h1.dirs, h1.fs, "b",
                               Entry(RequiredKeys \cup {"friendly_name"}, FolderStr(F2), PyInt(2)),
                               FALSE, "t0")
        eula == server_file(F1, "eula.txt")
        props == server_file(F2, "server.properties")
    IN  [dirs |-> h2.dirs,
         fs |-> [h2.fs EXCEPT ![eula].content = << <<"eula", "=", "false">> >>,
                              ![props].content = Append(@, <<"motd", "=", "hello">>)]]

InitialHosts == {EmptyHost, UsedHost}

ArgSets == [update : BOOLEAN, read_only : BOOLEAN]
HostEnvs == [root : BOOLEAN, mounted : BOOLEAN, config_dir : BOOLEAN]

\* The state in which main() starts on host h with command line a.
Start(h, a, e) ==
    /\ dirs = h.dirs
    /\ fs = h.fs
    /\ pc = "main"
    /\ args = a
    /\ hostenv = e
    /\ config = NoConfig
    /\ policy = NoPolicy
    /\ todo = {}
    /\ seen_ports = {}
    /\ cur = NoId
    /\ exit_code = NoExit
    /\ log = {}
    /\ calls = << >>
    /\ now = "t1"
    /\ stale_todo = {}
    /\ runs = 1
    /\ probe = NoProbe

Init == 
    /\ \E h \in InitialHosts, a \in ArgSets, e \in HostEnvs : Start(h, a, e)
    /\ scope = [ids |-> Ids, entries |-> Catalogue, faults |-> ScriptFaults]

Next ==
    \/ CheckRoot
    \/ CheckMount
    \/ Refresh
    \/ Load
    \/ LoopHead
    \/ Mkdir
    \/ Props
    \/ Eula
    \/ StartScript
    \/ StopScript
    \/ Unit
    \/ LoopEnd
    \/ Cleanup
    \/ Reload

Spec == Init /\ [][Next]_vars

---------------------------------------------------------------------------
(* A sequence of runs: main() is invoked again (on boot, on a config update) *)
(* on the host the runs before it left, and the operator edits files between *)
(* runs.                                                                     *)

\* The ids of the documents in a sequence of runs.
RunIds == {"a", "#1"}

\* main() is invoked again, as root and with the volume mounted, on the
\* config directory as it is (no --update).
Restart ==
    /\ pc = "done"
    /\ runs < MaxRuns
    /\ runs' = runs + 1
    /\ \E a \in ArgSets :
          /\ ~a.update
          /\ args' = a
    /\ pc' = "main"
    /\ config' = NoConfig
    /\ policy' = NoPolicy
    /\ todo' = {}
    /\ seen_ports' = {}
    /\ cur' = NoId
    /\ exit_code' = NoExit
    /\ log' = {}
    /\ calls' = << >>
    /\ now' = IF now = "t1" THEN "t2" ELSE "t1"
    /\ stale_todo' = {}
    /\ UNCHANGED << dirs, fs, hostenv, scope, probe >>

\* What an operator may put into an eula.txt.
EulaEdits ==
    { << <<"eula", "=", "false">> >>, << <<"#", "my server">>, <<"EULA", "=", "TRUE">> >> }

\* Between two runs the operator edits an existing eula.txt, or adds a key
\* to an existing server.properties.
OperatorEdit ==
    /\ pc = "main"
    /\ runs > 1
    /\ \E path \in DOMAIN fs :
          \/ /\ path.name = <<"eula.txt">>
             /\ \E text \in EulaEdits :
                   fs' = [fs EXCEPT ![path].content = text]
          \/ /\ path.name = <<"server.properties">>
             /\ \A i \in 1..Len(fs[path].content) : fs[path].content[i] # <<"motd", "=", "hello">>
             /\ fs' = [fs EXCEPT ![path].content = Append(@, <<"motd", "=", "hello">>)]
    /\ UNCHANGED << dirs, pc, args, hostenv, config, policy, todo, seen_ports, cur,
                    exit_code, log, calls, now, stale_todo, runs, scope, probe >>

\* The entries of the documents in a sequence of runs.
RunEntries ==
    { Entry(RequiredKeys, FolderStr(F1), PyInt(1)),
      Entry(RequiredKeys \cup {"friendly_name"}, FolderStr(F2), PyInt(2)) }

GoodEnv == [root |-> TRUE, mounted |-> TRUE, config_dir |-> TRUE]

InitRuns ==
    /\ \E a \in ArgSets : ~a.update /\ Start(EmptyHost, a, GoodEnv)
    /\ scope = [ids |-> RunIds, entries |-> RunEntries, faults |-> {"none"}]

NextRuns == Next \/ Restart \/ OperatorEdit

SpecRuns == InitRuns /\ [][NextRuns]_vars

---------------------------------------------------------------------------
(* validate_server on its own *)

\* all sequences over T of length at most n
SeqsUpTo(T, n) == UNION { [1..k -> T] : k \in 0..n }

FolderTokens == {"f1", ".", "/"}
FolderValues == { FolderStr(t) : t \in SeqsUpTo(FolderTokens, MaxFolderLen) } \cup {FolderNotStr}
PortValues == { PyInt(n) : n \in 0..4 } \cup { PyBool(TRUE), PyBool(FALSE), PyStr, PyNone }

\* Every value of servers[server_id] validate_server is tried on.
EntryUniverse ==
    { Entry(k, f, p) : k \in SUBSET (RequiredKeys \cup OptionalKeys),
                       f \in FolderValues, p \in PortValues }
    \cup {NotAMapping}

ProbePolicies == { [min |-> 1, max |-> 2], [min |-> 2, max |-> 3] }

\* The variables of main() while a function is examined on its own.
Idle(h) ==
    /\ dirs = h.dirs
    /\ fs = h.fs
    /\ pc = "probe"
    /\ args = [update |-> FALSE, read_only |-> FALSE]
    /\ hostenv = GoodEnv
    /\ config = NoConfig
    /\ policy = NoPolicy
    /\ todo = {}
    /\ seen_ports = {}
    /\ cur = NoId
    /\ exit_code = NoExit
    /\ log = {}
    /\ calls = << >>
    /\ now = "t1"
    /\ stale_todo = {}
    /\ runs = 1
    /\ scope = [ids |-> {}, entries |-> {}, faults |-> Faults]

InitValidate ==
    /\ Idle(EmptyHost)
    /\ \E data \in EntryUniverse, pol \in ProbePolicies :
          probe = Probe("validate_server", FALSE, data, pol, "", << >>, PyNone, FALSE, FALSE)

\* validate_server(server_id, data, port_min, port_max) is called.
Validate ==
    /\ pc = "probe"
    /\ probe.fn = "validate_server"
    /\ ~probe.done
    /\ probe' = [probe EXCEPT !.done = TRUE,
                              !.result = validate_server("a", probe.data, probe.pol.min,
                                                         probe.pol.max)]
    /\ UNCHANGED << dirs, fs, pc, args, hostenv, config, policy, todo, seen_ports, cur,
                    exit_code, log, calls, now, stale_todo, runs, scope >>

SpecValidate == InitValidate /\ [][Validate]_vars

---------------------------------------------------------------------------
(* update_server_properties on its own *)

\* The lines a server.properties is made of: pairs (one key twice, with
\* different values), a padded pair, a value with "=", an empty key, the two
\* port keys, a comment, a blank line, whitespace, a line without "=".
PropertyLines ==
    { <<"motd", "=", "hello">>,
      <<"motd", "=", "world">>,
      <<" ", "motd", " ", "=", " ", "hello", " ">>,
      <<"motd", "=", "hello", "=", "world">>,
      <<"=", "hello">>,
      <<"server-port", "=", "7">>,
      <<" ", "query.port", "=", "7">>,
      <<"#", "motd", "=", "world">>,
      << >>,
      <<" ">>,
      <<"motd">> }

ProbePorts == { PyInt(1), PyInt(2), PyBool(TRUE) }

InitProps ==
    /\ \E h \in { [dirs |-> (F1 :> EC2_USER), fs |-> << >>] }
              \cup { [dirs |-> (F1 :> EC2_USER),
                      fs |-> (server_file(F1, "server.properties") :> File(lines, 644, "root"))] :
                     lines \in SeqsUpTo(PropertyLines, MaxLines) } :
          Idle(h)
    /\ probe = Probe("update_server_properties", FALSE, NotAMapping, NoPolicy, "",
                     << >>, PyNone, FALSE, FALSE)

\* update_server_properties(folder_path, port, read_only) is called, again
\* and again, at changing times.
ApplyProps ==
    /\ pc = "probe"
    /\ probe.fn = "update_server_properties"
    /\ \E port \in ProbePorts, read_only \in BOOLEAN, fault \in Faults :
          LET r == update_server_properties(dirs, fs, F1, port, read_only, now, fault)
          IN  /\ fs' = r.fs
              /\ dirs' = r.dirs
              /\ probe' = [probe EXCEPT !.done = TRUE, !.before = fs, !.port = port,
                                        !.read_only = read_only, !.raised = r.raised]
    /\ now' = IF now = "t1" THEN "t2" ELSE "t1"
    /\ UNCHANGED << pc, args, hostenv, config, policy, todo, seen_ports, cur,
                    exit_code, log, calls, stale_todo, runs, scope >>

SpecProps == InitProps /\ [][ApplyProps]_vars

---------------------------------------------------------------------------
(* A run of main() on the host in use, with no failing system call *)

\* The servers mapping of the run that left UsedHost.
UsedServers ==
    ("a" :> Entry(RequiredKeys, FolderStr(F1), PyInt(1)))
    @@ ("b" :> Entry(RequiredKeys \cup {"friendly_name"}, FolderStr(F2), PyInt(2)))

InitUsed ==
    /\ \E a \in ArgSets : Start(UsedHost, a, GoodEnv)
    /\ scope = [ids |-> StrIds, entries |-> RunEntries, faults |-> {"none"}]

SpecUsed == InitUsed /\ [][Next]_vars

---------------------------------------------------------------------------
(* provision_server on its own, called twice with the same arguments *)

\* The hosts provision_server is tried on: an empty one, the host in use, and
\* hosts whose folder f1 holds a server.properties of any lines, with or
\* without an eula.txt the operator wrote.
IdemHosts ==
    {EmptyHost, UsedHost}
    \cup { [dirs |-> (F1 :> owner),
            fs |-> (server_file(F1, "server.properties") :> File(lines, 644, "root"))
                   @@ marker] :
            owner \in {"root", EC2_USER},
            lines \in SeqsUpTo(PropertyLines, MaxLines),
            marker \in {<< >>} \cup { (server_file(F1, "eula.txt") :> File(text, 644, EC2_USER)) :
                                        text \in EulaEdits } }

InitIdem ==
    /\ \E h \in IdemHosts : dirs = h.dirs /\ fs = h.fs
    /\ pc = "probe"
    /\ args = [update |-> FALSE, read_only |-> FALSE]
    /\ hostenv = GoodEnv
    /\ config = NoConfig
    /\ policy = NoPolicy
    /\ todo = {}
    /\ seen_ports = {}
    /\ cur \in {"a", "#1"}
    /\ exit_code = NoExit
    /\ log = {}
    /\ calls = << >>
    /\ now = "t1"
    /\ stale_todo = {}
    /\ runs = 1
    /\ scope = [ids |-> {}, entries |-> {}, faults |-> {"none"}]
    /\ \E data \in RunEntries :
          probe = Probe("provision_server", FALSE, data, NoPolicy, "", << >>, data.port,
                        FALSE, FALSE)

\* provision_server(cur, data, read_only=False) is called and returns; the
\* clock has moved on before the next call.
Provision ==
    /\ pc = "probe"
    /\ probe.fn = "provision_server"
    /\ probe.result \in {"", "once"}
    /\ LET r == provision_server(dirs, fs, cur, probe.data, FALSE, now)
       IN  /\ dirs' = r.dirs
           /\ fs' = r.fs
    /\ probe' = [probe EXCEPT !.done = TRUE, !.before = fs,
                              !.result = IF probe.result = "" THEN "once" ELSE "twice"]
    /\ now' = IF now = "t1" THEN "t2" ELSE "t1"
    /\ UNCHANGED << pc, args, hostenv, config, policy, todo, seen_ports, cur,
                    exit_code, log, calls, stale_todo, runs, scope >>

SpecIdem == InitIdem /\ [][Provision]_vars

---------------------------------------------------------------------------
(* Runs that write, one after the other, on documents that change *)

\* main() is invoked again without --read-only.
RunAgain == Restart /\ ~args'.read_only

\* The valid entries on port 1: they differ in their folder.
PortEntries == { e \in ValidEntries : e.port = PyInt(1) }

\* From an empty host: every run writes, the document of each run is any
\* document over two string ids and the entries on one port, no system call
\* fails.
InitPorts ==
    /\ Start(EmptyHost, [update |-> FALSE, read_only |-> FALSE], GoodEnv)
    /\ scope = [ids |-> StrIds, entries |-> PortEntries, faults |-> {"none"}]

NextPorts == Next \/ RunAgain

SpecPorts == InitPorts /\ [][NextPorts]_vars

---------------------------------------------------------------------------
(* Runs that write, one after the other, with system calls that fail *)

\* From an empty host: every run writes, the document of each run is any
\* document over two string ids and two entries, and any system call of any
\* run may fail.
InitFaults ==
    /\ Start(EmptyHost, [update |-> FALSE, read_only |-> FALSE], GoodEnv)
    /\ scope = [ids |-> StrIds, entries |-> RunEntries, faults |-> ScriptFaults]

NextFaults == Next \/ RunAgain

SpecFaults == InitFaults /\ [][NextFaults]_vars

---------------------------------------------------------------------------
(* reinstall_stack.py: one run of main() *)

\* Python's None where a string is expected
None == "<None>"

VolumeIds == {"vol-1", "vol-2"}
Zones == {"az-a", "az-b"}

\* what --existing-volume-id can carry on the command line (None: option absent)
CliVolumeIds == {None, ""} \cup VolumeIds
\* GAME_EXISTING_VOLUME_ID in the environment (None: unset)
EnvVolumeIds == {None, ""} \cup VolumeIds
\* the parameters of the stack that find_game_stacks returns, when there is one:
\* ExistingVolumeId may be missing from them
OldStackParameters == {None, ""} \cup VolumeIds
\* how many stacks with the prefix find_game_stacks returns
StackCounts == 0..2

\* truthiness of an optional string
Truthy(s) == s # None /\ s # ""

\* One CloudFormation call that changes a stack, and whether the waiter that
\* follows it raised WaiterError.
StackOp(op, parameters, waiter_error) ==
    [op |-> op, parameters |-> parameters, waiter_error |-> waiter_error]

\* One input() call: which prompt, and what the operator typed ("" is Enter,
\* "^C" is Ctrl+C: input raises KeyboardInterrupt, which nothing catches).
Prompt(about, confirm) == [about |-> about, confirm |-> confirm]
Answers == {"", "n", "^C"}

\* how main() ends after a prompt that was not answered with Enter
declined(p, confirm) ==
    [p EXCEPT !.at = "exit", !.exit = IF confirm = "^C" THEN 130 ELSE 0]

\* args.existing_volume_id after parse_args(): the option's value, else the default None.
\* env_defaults["existing_volume_id"] is read and then never consulted.
parsed_existing_volume_id(cli, env) == cli

\* final_volume_id as main() determines it
resolve_final_volume_id(existing_volume_id, reuse_volume, old_volume_id) ==
    IF existing_volume_id # None THEN existing_volume_id
    ELSE IF reuse_volume /\ Truthy(old_volume_id) THEN old_volume_id
    ELSE ""

\* the Parameters list handed to create_stack, as a set of key/value pairs
build_parameters(final_volume_id, availability_zone) ==
    { <<"ServerPortNumberStart", "25565">>, <<"ServerPortNumberEnd", "25565">>,
      <<"SetupCommand", "setup">>, <<"ExistingVolumeId", final_volume_id>>,
      <<"InstanceType", "t4g.medium">> }
    \cup (IF Truthy(availability_zone) THEN { <<"AvailabilityZone", availability_zone>> }
          ELSE {})

Reinstall(cli, env, reuse_volume, stacks, old_param) ==
    [fn |-> "reinstall_stack", at |-> "parse",
     cli |-> cli, env |-> env, reuse_flag |-> reuse_volume,
     stacks |-> stacks, old_param |-> old_param,
     existing_volume_id |-> None, reuse_volume |-> TRUE,
     old_volume_id |-> None, deleted_stack_name |-> None,
     final_volume_id |-> None, availability_zone |-> None,
     prompts |-> << >>, ops |-> << >>, exit |-> NoExit]

InitReinstall ==
    /\ Idle(EmptyHost)
    /\ \E cli \in CliVolumeIds, env \in EnvVolumeIds, reuse_volume \in BOOLEAN,
          stacks \in StackCounts, old_param \in OldStackParameters :
          /\ (stacks = 0 => old_param = None)
          /\ probe = Reinstall(cli, env, reuse_volume, stacks, old_param)

ReinstallAt(at) == pc = "probe" /\ probe.fn = "reinstall_stack" /\ probe.at = at

ReinstallRest == << dirs, fs, pc, args, hostenv, config, policy, todo, seen_ports, cur,
                    exit_code, log, calls, now, stale_todo, runs, scope >>

\* env_defaults, the parser and parse_args()
ParseArgs ==
    /\ ReinstallAt("parse")
    /\ probe' = [probe EXCEPT !.at = "find",
                              !.existing_volume_id = parsed_existing_volume_id(probe.cli, probe.env),
                              !.reuse_volume = probe.reuse_flag]
    /\ UNCHANGED ReinstallRest

\* find_game_stacks and the check for more than one stack
FindStacks ==
    /\ ReinstallAt("find")
    /\ probe' = IF probe.stacks > 1 THEN [probe EXCEPT !.at = "exit", !.exit = 1]
                ELSE IF probe.stacks = 1 THEN [probe EXCEPT !.at = "confirm_delete"]
                ELSE [probe EXCEPT !.at = "resolve"]
    /\ UNCHANGED ReinstallRest

\* ConfirmDelete that goes on to delete whatever the operator typed
ConfirmDelete_ignoring_answer ==
    /\ ReinstallAt("confirm_delete")
    /\ \E confirm \in Answers :
          probe' = [probe EXCEPT !.at = "delete",
                                 !.prompts = Append(@, Prompt("delete", confirm)),
                                 !.old_volume_id = IF probe.old_param = None THEN ""
                                                   ELSE probe.old_param,
                                 !.deleted_stack_name = "GameStack-old"]
    /\ UNCHANGED ReinstallRest

\* the first prompt, then get_stack_parameters
ConfirmDelete ==
    /\ ReinstallAt("confirm_delete")
    /\ \E confirm \in Answers :
          probe' = IF confirm # ""
                   THEN declined([probe EXCEPT !.prompts = Append(@, Prompt("delete", confirm))],
                                 confirm)
                   ELSE [probe EXCEPT !.at = "delete",
                                      !.prompts = Append(@, Prompt("delete", confirm)),
                                      !.old_volume_id = IF probe.old_param = None THEN ""
                                                        ELSE probe.old_param,
                                      !.deleted_stack_name = "GameStack-old"]
    /\ UNCHANGED ReinstallRest

\* delete_stack(cf_client, deleted_stack_name)
DeleteStack ==
    /\ ReinstallAt("delete")
    /\ \E waiter_error \in BOOLEAN :
          probe' = [probe EXCEPT !.ops = Append(@, StackOp("delete_stack", {}, waiter_error)),
                                 !.at = IF waiter_error THEN "exit" ELSE "resolve",
                                 !.exit = IF waiter_error THEN 1 ELSE @]
    /\ UNCHANGED ReinstallRest

\* "Determine final ExistingVolumeId early, before creation confirmation"
ResolveVolume ==
    /\ ReinstallAt("resolve")
    /\ probe' = [probe EXCEPT !.at = "detect",
                              !.final_volume_id =
                                  resolve_final_volume_id(probe.existing_volume_id,
                                                          probe.reuse_volume,
                                                          probe.old_volume_id)]
    /\ UNCHANGED ReinstallRest

\* get_volume_az when an existing volume is used
DetectZone ==
    /\ ReinstallAt("detect")
    /\ IF Truthy(probe.final_volume_id)
       THEN \E response \in Zones \cup {"no volumes", "ClientError"} :
               probe' = IF response \in Zones
                        THEN [probe EXCEPT !.at = "confirm_create",
                                           !.availability_zone = response]
                        ELSE [probe EXCEPT !.at = "exit", !.exit = 1]
       ELSE probe' = [probe EXCEPT !.at = "confirm_create"]
    /\ UNCHANGED ReinstallRest

\* the second prompt
ConfirmCreate ==
    /\ ReinstallAt("confirm_create")
    /\ \E confirm \in Answers :
          probe' = IF confirm # ""
                   THEN declined([probe EXCEPT !.prompts = Append(@, Prompt("create", confirm))],
                                 confirm)
                   ELSE [probe EXCEPT !.at = "create",
                                      !.prompts = Append(@, Prompt("create", confirm))]
    /\ UNCHANGED ReinstallRest

\* the parameters list, the template and create_stack
CreateStack ==
    /\ ReinstallAt("create")
    /\ \E template_found \in BOOLEAN, waiter_error \in BOOLEAN :
          probe' = IF ~template_found THEN [probe EXCEPT !.at = "exit", !.exit = 1]
                   ELSE [probe EXCEPT
                           !.ops = Append(@, StackOp("create_stack",
                                                     build_parameters(probe.final_volume_id,
                                                                      probe.availability_zone),
                                                     waiter_error)),
                           !.at = "exit",
                           !.exit = IF waiter_error THEN 1 ELSE 0]
    /\ UNCHANGED ReinstallRest

NextReinstall ==
    \/ ParseArgs
    \/ FindStacks
    \/ ConfirmDelete
    \/ DeleteStack
    \/ ResolveVolume
    \/ DetectZone
    \/ ConfirmCreate
    \/ CreateStack

SpecReinstall == InitReinstall /\ [][NextReinstall]_vars

---------------------------------------------------------------------------
(* Properties *)

\* positions of main() inside provision_server
ProvisionPcs == {"mkdir", "props", "eula", "start_script", "stop_script", "unit"}

\* the ids for which provision_server has been called in this run
Reached ==
    { r.id : r \in { x \in log : x.msg \in {"Provisioning server",
                                           "[READ-ONLY] Would provision server"} } }
\* the ids this run has skipped with a given message
Skipped(msg) == { r.id : r \in { x \in log : x.msg = msg } }
\* the ids of provisioned the for loop has visited
Visited == config.provisioned \ todo

\* the external commands of this run that went to a program
CallsTo(prog) == { i \in 1..Len(calls) : calls[i].prog = prog }

\* the unit files of ids that are not provisioned
StaleUnits == { u \in unit_files(fs) : ~in_provisioned(srv_id_of(u), config.provisioned) }

C2_RefreshIsNoOpUnderDryRun ==
    (args.update /\ args.read_only) => CallsTo("git") = {}

\* C3: a write failure while provisioning one entry aborts only that entry:
\* a run that ended after a statement of provision_server raised has visited
\* every id of provisioned, has requested the reload and has not exited 1.
C3_WriteFailureAbortsOnlyEntry ==
    (pc = "done" /\ cur # NoId /\ ~args.read_only)
        => /\ todo = {}
           /\ exit_code # 1
           /\ \E i \in CallsTo("systemctl") : calls[i].verb = "daemon-reload"


\* the eula.txt files of a host
Markers(f) == { p \in DOMAIN f : p.name = <<"eula.txt">> }
\* a step of main() (the operator's edits happen while pc stays "main")
ProgramStep == pc # "main" \/ pc' # "main"

\* C4: across a sequence of runs, no step of main() rewrites or deletes an
\* eula.txt that exists, whatever its content; a marker that appears was
\* absent and is written pre-accepted; on an existing marker without the
\* acceptance token ensure_eula_accepted only logs a warning.
C4_ExistingMarkerIsNeverRewritten ==
    [][ProgramStep =>
          /\ \A p \in Markers(fs) : p \in DOMAIN fs' /\ fs'[p] = fs[p]
          /\ \A p \in Markers(fs') \ Markers(fs) :
                /\ pc = "eula"
                /\ ~args.read_only
                /\ fs'[p].content = GeneratedEula
                /\ eula_accepted(fs'[p].content)
          /\ \A p \in Markers(fs) :
                (pc = "eula" /\ p = server_file(folder_of(cur), "eula.txt")
                    /\ ~eula_accepted(fs[p].content))
                   => \E r \in log' : r.lvl = "warning" /\ r.msg = "EULA not accepted" /\ r.path = p
      ]_vars

\* C4 witness: a run that writes has gone past ensure_eula_accepted for a
\* marker the operator had set to eula=false; it warned and the marker is as
\* the operator left it.
C4_Witness ==
    /\ runs > 1
    /\ ~args.read_only
    /\ pc = "start_script"
    /\ LET p == server_file(folder_of(cur), "eula.txt")
       IN  /\ p \in DOMAIN fs
           /\ fs[p].content = << <<"eula", "=", "false">> >>
           /\ \E r \in log : r.msg = "EULA not accepted" /\ r.path = p

\* validate_server accepts the entry of an id of the loaded document
Valid(id) ==
    /\ id \in DOMAIN config.servers
    /\ validate_server(id, config.servers[id], policy.min, policy.max) = "ok"
\* the port of the entry of an id
port_of(id) == config.servers[id].port.n
\* the paths main() creates or writes for an id
OwnPath(id, p) == (p.root = "minecraft" /\ p.folder = folder_of(id)) \/ p = unit_path(id)
\* the files and directories a step changes
ChangedFiles ==
    { p \in DOMAIN fs \cup DOMAIN fs' : p \notin DOMAIN fs \/ p \notin DOMAIN fs' \/ fs'[p] # fs[p] }
ChangedDirs ==
    { x \in DOMAIN dirs \cup DOMAIN dirs' :
        x \notin DOMAIN dirs \/ x \notin DOMAIN dirs' \/ dirs'[x] # dirs[x] }

\* C5: within one run the entries that reach provision_server have pairwise
\* distinct ports, whatever the document and the order of the ids; the step
\* that meets an entry whose port is already accepted skips it (logged as a
\* duplicate), changes nothing on the host and leaves the accepted entries
\* accepted.
C5_AcceptedPortsAreDistinct ==
    [][/\ \A x, y \in Reached' : x # y => config'.servers[x].port.n # config'.servers[y].port.n
       /\ \A id \in todo \ todo' :
             (Valid(id) /\ port_of(id) \in seen_ports)
                => /\ id \in Skipped("Duplicate port - skipping")'
                   /\ id \notin Reached'
                   /\ Reached' = Reached
                   /\ seen_ports' = seen_ports
                   /\ pc' = "loop"
                   /\ dirs' = dirs /\ fs' = fs
      ]_vars

\* C5 witness: a run that writes has ended normally with one entry
\* provisioned (its unit is on the host) and a later one on the same port
\* skipped as a duplicate.
C5_Witness ==
    /\ pc = "done" /\ exit_code = 0 /\ ~args.read_only
    /\ \E w \in Reached, s \in Skipped("Duplicate port - skipping") :
          /\ port_of(s) = port_of(w)
          /\ unit_path(w) \in DOMAIN fs
          /\ fs[unit_path(w)].content = unit_content(w, data_of(w))

\* the ids of provisioned whose entry declares a port
Declared ==
    { id \in config.provisioned \cap DOMAIN config.servers :
        config.servers[id].mapping /\ "port" \in config.servers[id].keys }
\* the valid entries of provisioned on a port that the loop has visited
VisitedOn(n) == { id \in Visited : Valid(id) /\ port_of(id) = n }

\* C6 as stated: at the end of a run, of any two entries of provisioned that
\* share a port exactly one has been provisioned and the other has been
\* skipped and logged as a duplicate.
C6_ExactlyOneOfEachPair ==
    (pc = "done" /\ exit_code = 0)
        => \A x, y \in Declared :
              (x # y /\ config.servers[x].port = config.servers[y].port)
                 => \/ x \in Reached /\ y \in Skipped("Duplicate port - skipping") \ Reached
                    \/ y \in Reached /\ x \in Skipped("Duplicate port - skipping") \ Reached

\* C6 amended: of the valid entries of provisioned that share a port and that
\* the loop has visited, exactly one has reached provision_server (so the
\* first one visited) and every other one has been skipped and logged as a
\* duplicate; an entry that is not valid is skipped as invalid, whatever its
\* port.
C6_OneWinnerPerPort ==
    (pc \in {"loop", "cleanup", "done"} \cup ProvisionPcs /\ exit_code # 1)
        => /\ \A n \in { port_of(id) : id \in { v \in Visited : Valid(v) } } :
                 \E w \in VisitedOn(n) :
                    /\ VisitedOn(n) \cap Reached = {w}
                    /\ VisitedOn(n) \ {w} \subseteq Skipped("Duplicate port - skipping")
           /\ Reached \cap Skipped("Duplicate port - skipping") = {}
           /\ \A id \in Skipped("Duplicate port - skipping") : Valid(id)

\* C6 witness: a run has ended normally with three valid entries on one
\* port, one of them provisioned and the two others skipped as duplicates.
C6_Witness ==
    /\ pc = "done" /\ exit_code = 0 /\ ~args.read_only
    /\ \E n \in seen_ports :
          /\ Cardinality(VisitedOn(n)) = 3
          /\ Cardinality(VisitedOn(n) \cap Reached) = 1
          /\ Cardinality(VisitedOn(n) \cap Skipped("Duplicate port - skipping")) = 2

\* C7: an entry validate_server rejects never reaches provision_server, and
\* the loop creates or writes nothing for it: the step that validates an
\* entry changes nothing on the host, and every change a statement of
\* provision_server makes is to a path of the entry being provisioned, which
\* validate_server has accepted.
C7_RejectedEntryIsNeverTouched ==
    [][/\ \A id \in Reached' :
             /\ id \in DOMAIN config'.servers
             /\ validate_server(id, config'.servers[id], policy'.min, policy'.max) = "ok"
       /\ (pc = "loop" => dirs' = dirs /\ fs' = fs)
       /\ (pc \in ProvisionPcs =>
             /\ Valid(cur)
             /\ cur \in Reached
             /\ \A p \in ChangedFiles : OwnPath(cur, p)
             /\ \A x \in ChangedDirs : x = folder_of(cur))
      ]_vars

\* C7 witness: a run that writes has ended normally after skipping a
\* rejected entry (out-of-range port, traversal folder, string port or a
\* missing field) and provisioning another one; nothing of the rejected
\* entry is on the host.
C7_Witness ==
    /\ pc = "done" /\ exit_code = 0 /\ ~args.read_only
    /\ \E w \in Reached : unit_path(w) \in DOMAIN fs
    /\ \E id \in Skipped("skipping (invalid)") :
          /\ ~Valid(id)
          /\ unit_path(id) \notin DOMAIN fs
          /\ \E o \in {"folder", "port", "keys"} :
                \/ o = "folder" /\ Contains(<<"/">>, config.servers[id].folder.s)
                \/ o = "port" /\ ~isinstance_int(config.servers[id].port)
                \/ o = "keys" /\ RequiredKeys \ config.servers[id].keys # {}

\* a step of the for loop of main() that changes the host
Mutation == pc \in ProvisionPcs /\ (ChangedFiles # {} \/ ChangedDirs # {})

\* C9 as stated: no directory, file or unit is written for any entry until
\* every id of provisioned has been validated and checked for a duplicate
\* port.
C9_AllCheckedBeforeAnyWrite ==
    [][Mutation => todo = {}]_vars

\* C9 amended: the invariants are enforced entry by entry.  Nothing under
\* the server root or the unit directory changes before an entry has been
\* accepted by the for loop, and a directory, file or unit is written
\* for an entry only after that entry has been validated and its port checked
\* against the ports of the entries accepted before it; entries visited later
\* are checked after these writes.
C9_EachCheckedBeforeItsWrites ==
    [][/\ (pc \in {"main", "mount", "refresh", "load", "loop"} => dirs' = dirs /\ fs' = fs)
       /\ (Mutation =>
             /\ cur \in Visited
             /\ Valid(cur)
             /\ ~Contains(<<"/">>, folder_of(cur)) /\ ~Contains(<<".", ".">>, folder_of(cur))
             /\ port_of(cur) \in seen_ports
             /\ \A o \in Reached \ {cur} : port_of(o) # port_of(cur))
      ]_vars

\* C9 witness: a file of one entry has been written while ids of provisioned
\* are still to be validated.
C9_Witness ==
    /\ pc \in ProvisionPcs
    /\ ~args.read_only
    /\ todo # {}
    /\ \E r \in log : r.msg = "Wrote file" /\ OwnPath(cur, r.path)
    /\ \E id \in todo : ~Valid(id)

\* what the claim about validate_server says it rejects: a required field
\* absent, a port that is no integer or lies outside [min, max], a folder
\* that is no plain path segment
StatedRejection(data, pol) ==
    \/ ~data.mapping
    \/ RequiredKeys \ data.keys # {}
    \/ data.port.ty # "int"
    \/ data.port.n < pol.min
    \/ data.port.n > pol.max
    \/ ~data.folder.str
    \/ Contains(<<"/">>, data.folder.s)
    \/ Contains(<<".", ".">>, data.folder.s)

\* C8: validate_server rejects an entry exactly when a required field is
\* absent, or port is not an integer or lies outside [port_min, port_max], or
\* folder is not a plain path segment; every other entry is accepted,
\* port_min and port_max included.
C8_RejectsExactlyTheStatedEntries ==
    (probe.fn = "validate_server" /\ probe.done)
        => (probe.result # "ok" <=> StatedRejection(probe.data, probe.pol))

\* the pairs a reader of a properties file finds in its lines: (line number,
\* key, value) of every line that is no comment and holds "="
PairsIn(content) ==
    { <<i, strip(SubSeq(strip(content[i]), 1, first_eq(strip(content[i])) - 1)),
           strip(SubSeq(strip(content[i]), first_eq(strip(content[i])) + 1,
                        Len(strip(content[i]))))>> :
        i \in { j \in 1..Len(content) :
                  /\ strip(content[j]) # << >>
                  /\ Head(strip(content[j])) # "#"
                  /\ \E e \in 1..Len(strip(content[j])) : strip(content[j])[e] = "=" } }
\* the pairs of the server.properties of F1 on a host (none when it is absent)
PropsOf(f) ==
    IF server_file(F1, "server.properties") \in DOMAIN f
    THEN PairsIn(f[server_file(F1, "server.properties")].content)
    ELSE {}
PortKeys == {KEY_SERVER_PORT, KEY_QUERY_PORT}
\* a call of update_server_properties outside dry-run has returned
Merged == probe.fn = "update_server_properties" /\ probe.done
          /\ ~probe.read_only /\ ~probe.raised
\* both port keys are in the file exactly once, with str(port)
PortsSet ==
    \A k \in PortKeys :
        { t[3] : t \in { u \in PropsOf(fs) : u[2] = k } } = { <<str_port(probe.port)>> }
        /\ Cardinality({ u \in PropsOf(fs) : u[2] = k }) = 1

Artifact(f, p) ==
    [content |-> IF p.name = <<"server.properties">>
                 THEN { <<t[2], t[3]>> : t \in PairsIn(f[p].content) }
                 ELSE {f[p].content},
     mode |-> f[p].mode, owner |-> f[p].owner]

\* C11: provisioning is idempotent: for every valid entry and every starting
\* host, the second of two calls of provision_server with the same arguments
\* leaves the directories and every file (property file as a key/value set,
\* license marker, start script, stop script, unit) as the first call left
\* them; only the timestamp comment differs.
C11_ProvisioningIsIdempotent ==
    [][(probe.fn = "provision_server" /\ probe.result = "once" /\ probe'.result = "twice")
          => /\ dirs' = dirs
             /\ DOMAIN fs' = DOMAIN fs
             /\ \A p \in DOMAIN fs : Artifact(fs', p) = Artifact(fs, p)
      ]_vars

\* C11 witness: the second call has returned on a host whose property file
\* had an operator's key and whose marker the operator had edited; the file
\* carries the second call's timestamp, the first call's one is gone, all
\* six artifacts of the entry are there.
C11_Witness ==
    /\ probe.fn = "provision_server" /\ probe.result = "twice"
    /\ LET folder == probe.data.folder.s
           props == server_file(folder, "server.properties")
       IN  /\ folder \in DOMAIN dirs
           /\ { server_file(folder, n) : n \in {"server.properties", "eula.txt",
                    "start-minecraft.sh", "stop-minecraft.sh"} } \cup {unit_path(cur)}
                 \subseteq DOMAIN fs
           /\ Head(fs[props].content) # Head(probe.before[props].content)
           /\ \E t \in PairsIn(fs[props].content) : t[2] = <<"motd">>
           /\ ~eula_accepted(fs[server_file(folder, "eula.txt")].content)

\* a run that writes has ended normally
Completed == pc = "done" /\ exit_code = 0 /\ ~args.read_only
\* systemctl disable --now was issued for a service
Disabled(srv_id) ==
    \E i \in CallsTo("systemctl") : calls[i].verb = "disable --now" /\ calls[i].arg = srv_id

\* C12: on the host an earlier run left with "a" and "b" provisioned, a run
\* (not dry-run) of the same servers mapping with ids removed from
\* provisioned ends with the unit file of every removed id deleted and a
\* disable issued for its service, and with every artifact of every id still
\* in provisioned present as before (a property file by its key/value set,
\* so but for the timestamp).
C12_RemovedIdIsCleanedUp ==
    (Completed /\ config.servers = UsedServers)
        => /\ \A id \in DOMAIN UsedServers \ config.provisioned :
                 /\ unit_path(id) \in DOMAIN UsedHost.fs
                 /\ unit_path(id) \notin DOMAIN fs
                 /\ Disabled(str_id(id))
           /\ \A id \in config.provisioned :
                 /\ \A p \in DOMAIN UsedHost.fs :
                       OwnPath(id, p) => p \in DOMAIN fs /\ Artifact(fs, p) = Artifact(UsedHost.fs, p)
                 /\ ~Disabled(str_id(id))
                 /\ folder_of(id) \in DOMAIN dirs /\ dirs[folder_of(id)] = UsedHost.dirs[folder_of(id)]

\* C12 witness: "a" was removed from provisioned and "b" kept; the run has
\* ended, the unit of "a" is gone and was disabled, the unit of "b" is there.
C12_Witness ==
    /\ Completed
    /\ config.servers = UsedServers
    /\ config.provisioned = {"b"}
    /\ unit_path("a") \notin DOMAIN fs
    /\ Disabled("a")
    /\ unit_path("b") \in DOMAIN fs
    /\ fs[unit_path("b")] = UsedHost.fs[unit_path("b")]
    /\ server_file(F1, "server.properties") \in DOMAIN fs

\* the commands of this run that exited with a status that is not zero
FailedCalls(prog, verb) ==
    { i \in CallsTo(prog) : calls[i].verb = verb /\ calls[i].rc # 0 }
\* the unit files this run found stale
FoundStale == { r.path : r \in { x \in log : x.msg = "Found stale service" } }

\* C13: stale cleanup is best-effort.  In a run that got to the reload, a
\* failure to disable a stale service and a failure to delete its unit file
\* have each been logged; the unit file of a service whose disable failed is
\* deleted all the same (unless its deletion failed too); every stale unit
\* was processed; and the run exits 0 when the reload itself succeeded.
C13_CleanupIsBestEffort ==
    (pc = "done" /\ \E i \in CallsTo("systemctl") : calls[i].verb = "daemon-reload")
        => /\ \A i \in FailedCalls("systemctl", "disable --now") :
                 \E r \in log : r.lvl \in {"warning", "error"} /\ r.id = calls[i].arg
                                /\ r.msg # "Failed to remove"
           /\ \A u \in FoundStale :
                 /\ Disabled(srv_id_of(u))
                 /\ u \in DOMAIN fs => \E r \in log : r.msg = "Failed to remove" /\ r.path = u
           /\ \A u \in unit_files(fs) :
                 ~in_provisioned(srv_id_of(u), config.provisioned) => u \in FoundStale
           /\ FailedCalls("systemctl", "daemon-reload") = {} => exit_code = 0

\* C14: a dry run that ends normally has logged, for every existing
\* generated unit whose derived id is not in provisioned, the disable and
\* removal a real run would perform, and has removed none of them.
C14_DryRunLogsStaleCleanupIntent ==
    (pc = "done" /\ exit_code = 0 /\ args.read_only)
        => /\ \A u \in StaleUnits :
                 \E r \in log : /\ r.msg = "[READ-ONLY] Would disable --now and remove"
                                /\ r.path = u
           /\ CallsTo("systemctl") = {}

\* the messages main() logs for a run-level fatal condition
FatalMessages ==
    LoadErrors \cup {"This script must run as root",
                     "Persistent volume does not appear to be mounted"}

\* C15: a run-level fatal condition (not root, volume not mounted, a document
\* missing or without its servers mapping or provisioned list) ends the run
\* with exit 1 before any entry is provisioned: up to and including the load
\* no step writes or removes anything on the host or calls systemctl, no
\* entry has reached provision_server, and the step that meets the condition
\* is the last one of the run.
C15_FatalConditionEndsRunUntouched ==
    [][/\ (pc \in {"main", "mount", "refresh", "load"}
             => /\ dirs' = dirs /\ fs' = fs
                /\ CallsTo("systemctl")' = {}
                /\ Reached' = {})
       /\ (\/ pc = "main" /\ ~hostenv.root
           \/ pc = "mount" /\ ~hostenv.mounted
           \/ pc = "load" /\ ~hostenv.config_dir
           \/ \E r \in log' \ log : r.msg \in FatalMessages)
             => /\ pc' = "done"
                /\ exit_code' = 1
                /\ \E r \in log' \ log : r.msg \in FatalMessages
      ]_vars

\* C15 witness: on the host in use a run that would write has ended with
\* exit 1 on a document without its provisioned list; every unit of the host
\* is still there, nothing was called.
C15_Witness ==
    /\ pc = "done" /\ exit_code = 1 /\ ~args.read_only
    /\ \E r \in log : r.msg = "Config missing or invalid 'provisioned' list"
    /\ dirs = UsedHost.dirs /\ fs = UsedHost.fs
    /\ CallsTo("systemctl") = {}
    /\ Reached = {}

\* the messages with which main() skips an entry and goes on
SkipMessages ==
    {"Provisioned server not defined in 'servers'", "skipping (invalid)",
     "Duplicate port - skipping"}
\* the ids this run has skipped
AllSkipped == UNION { Skipped(m) : m \in SkipMessages }

\* C16: a run ends with exit 0 or 1, and with 1 exactly when a precondition
\* failed or the handler of main() caught an exception (a load error or one
\* raised during the pass); so a run whose preconditions hold, whose
\* documents load and in which nothing raises exits 0, however many entries
\* it skipped as undefined, invalid or duplicate; and then every id of
\* provisioned was either skipped or provisioned.
C16_SkipsDoNotFailTheRun ==
    pc = "done"
        => /\ exit_code \in {0, 1}
           /\ exit_code = 1 <=>
                 \E r \in log : r.msg \in {"This script must run as root",
                                           "Persistent volume does not appear to be mounted",
                                           "Fatal error during provisioning"}
           /\ exit_code = 0 =>
                 /\ todo = {}
                 /\ config.provisioned = Reached \cup AllSkipped
                 /\ Reached \cap AllSkipped = {}

\* C16 witness: a run that writes has ended with exit 0 although it skipped
\* every entry: one as undefined, one as invalid.
C16_Witness ==
    /\ Completed
    /\ Reached = {}
    /\ Skipped("Provisioned server not defined in 'servers'") # {}
    /\ Skipped("skipping (invalid)") # {}
    /\ \E i \in CallsTo("systemctl") : calls[i].verb = "daemon-reload"

\* C17: a validation error stays inside the per-entry boundary: the step of
\* the for loop that visits an entry validate_server does not accept,
\* whatever its shape (fields missing, port or folder of a wrong type, no
\* mapping at all), logs it, skips it and goes on with the remaining ids; the
\* run does not end there.
C17_ValidationErrorStaysPerEntry ==
    [][\A id \in todo \ todo' :
          (pc = "loop" /\ id \in DOMAIN config.servers /\ ~Valid(id))
             => /\ pc' = "loop"
                /\ exit_code' = exit_code
                /\ id \in Skipped("skipping (invalid)")'
                /\ dirs' = dirs /\ fs' = fs
      ]_vars

\* the six artifacts of an id are on the host
Provisioned(id) ==
    /\ folder_of(id) \in DOMAIN dirs
    /\ \A n \in {"server.properties", "eula.txt", "start-minecraft.sh", "stop-minecraft.sh"} :
          server_file(folder_of(id), n) \in DOMAIN fs
    /\ unit_path(id) \in DOMAIN fs

\* C18: skips never block other entries: when a run that writes, and in
\* which no write failed, has ended, every id of provisioned that is defined,
\* passes validation and has a port no entry provisioned before it has, has
\* its directory, property file, license marker, start script, stop script
\* and unit file on the host, whatever was skipped and in whatever order the
\* ids were visited.
C18_SkipsNeverBlockOtherEntries ==
    (pc = "done" /\ ~args.read_only /\ cur = NoId)
        => \A id \in config.provisioned :
              (Valid(id) /\ \A o \in Reached \ {id} : port_of(o) # port_of(id))
                 => Provisioned(id)

\* the ids defined in servers that are not in provisioned
Inactive == DOMAIN config.servers \ config.provisioned
\* the files and the directory under the server root that an entry names
DataOf(id) == { p \in DOMAIN fs : p.root = "minecraft" /\ p.folder = folder_of(id) }

\* C19 as stated: for an id in servers that is not in provisioned a run
\* writes no artifact and removes none of the existing ones: directory,
\* property file, license marker, scripts, unit definition.
C19_InactiveIdKeepsAllArtifacts ==
    [][\A id \in Inactive :
          /\ id \notin Reached'
          /\ DataOf(id) \subseteq DOMAIN fs'
          /\ folder_of(id) \in DOMAIN dirs => folder_of(id) \in DOMAIN dirs'
          /\ unit_path(id) \in DOMAIN fs => unit_path(id) \in DOMAIN fs'
      ]_vars

\* C19 amended: an id in servers that is not in provisioned is not
\* provisioned and its data is not cleaned up: a run never calls
\* provision_server for it and removes neither its directory nor a file in
\* it (property file, license marker, scripts).  Its unit definition is not
\* written either, but if one exists it is stale: a run that writes disables
\* the service and deletes the unit file in stale cleanup; a dry run leaves it.
C19_InactiveIdKeepsItsData ==
    [][\A id \in Inactive :
          /\ id \notin Reached' /\ cur' # id
          /\ DataOf(id) \subseteq DOMAIN fs'
          /\ folder_of(id) \in DOMAIN dirs => folder_of(id) \in DOMAIN dirs'
          /\ unit_path(id) \in ChangedFiles
                => /\ pc = "cleanup" /\ ~args.read_only
                   /\ unit_path(id) \in DOMAIN fs /\ unit_path(id) \notin DOMAIN fs'
                   /\ Disabled(str_id(id))'
      ]_vars

\* C19 witness: "a", provisioned by an earlier run in f1, is in servers and
\* not in provisioned; the run has ended, everything in f1 is as it was, the
\* unit of "a" was disabled and is gone.
C19_Witness ==
    /\ Completed
    /\ "a" \in Inactive
    /\ folder_of("a") = F1
    /\ \A p \in DOMAIN UsedHost.fs :
          (p.root = "minecraft" /\ p.folder = F1) => p \in DOMAIN fs /\ fs[p] = UsedHost.fs[p]
    /\ unit_path("a") \in DOMAIN UsedHost.fs
    /\ unit_path("a") \notin DOMAIN fs
    /\ Disabled("a")

\* the create_stack calls of a reinstall_stack run
Created ==
    IF probe.fn = "reinstall_stack"
    THEN { probe.ops[i] : i \in { j \in DOMAIN probe.ops : probe.ops[j].op = "create_stack" } }
    ELSE {}

\* the values a create_stack call passes for one ParameterKey
ParameterValues(o, key) == { kv[2] : kv \in { p \in o.parameters : p[1] = key } }

\* the ExistingVolumeId the stated precedence gives: command line, then environment,
\* then the deleted stack's parameter when reuse is enabled, then empty
StatedVolumeId ==
    IF probe.cli # None THEN probe.cli
    ELSE IF Truthy(probe.env) THEN probe.env
    ELSE IF probe.reuse_flag /\ probe.deleted_stack_name # None /\ Truthy(probe.old_param)
         THEN probe.old_param
    ELSE ""

\* C20: the ExistingVolumeId passed to stack creation is the explicit
\* --existing-volume-id, else GAME_EXISTING_VOLUME_ID, else (reuse enabled and an old
\* stack deleted) that stack's ExistingVolumeId parameter, else empty; and the
\* AvailabilityZone parameter is passed exactly when that id is non-empty.
C20_VolumeIdPrecedence ==
    \A o \in Created :
        /\ ParameterValues(o, "ExistingVolumeId") = {StatedVolumeId}
        /\ (ParameterValues(o, "AvailabilityZone") # {}
               <=> ParameterValues(o, "ExistingVolumeId") # {""})

\* the stack operations of a reinstall_stack run so far, by name
OpsDone == IF probe.fn = "reinstall_stack"
           THEN [i \in DOMAIN probe.ops |-> probe.ops[i].op] ELSE << >>

\* the operator answered the prompt with Enter
Confirmed(about) ==
    \E i \in DOMAIN probe.prompts : probe.prompts[i] = Prompt(about, "")

\* the operator answered some prompt with something else
Declined ==
    /\ probe.fn = "reinstall_stack"
    /\ \E i \in DOMAIN probe.prompts : probe.prompts[i].confirm # ""

\* C21: with more than one GameStack stack found, no stack is deleted or created;
\* a stack is deleted only after the operator confirmed the deletion; creation is
\* initiated only after the operator confirmed it and, when a stack was found, after
\* its deletion completed; once a prompt is declined no stack operation follows.
C21_StackOperationsFollowConfirmation ==
    [][ /\ probe'.fn = "reinstall_stack" =>
            /\ (probe'.stacks > 1 => OpsDone' = << >>)
            /\ OpsDone' \in {<< >>, <<"delete_stack">>, <<"create_stack">>,
                             <<"delete_stack", "create_stack">>}
            /\ (probe'.stacks = 1 /\ OpsDone' # << >> =>
                    OpsDone'[1] = "delete_stack" /\ Confirmed("delete")')
            /\ ((\E i \in DOMAIN OpsDone' : OpsDone'[i] = "create_stack") =>
                    /\ Confirmed("create")'
                    /\ \A i \in DOMAIN probe'.ops :
                          probe'.ops[i].op = "delete_stack" => ~probe'.ops[i].waiter_error)
        /\ Declined => probe'.ops = probe.ops ]_vars

C21_Witness ==
    /\ probe.fn = "reinstall_stack"
    /\ probe.stacks = 1
    /\ OpsDone = <<"delete_stack", "create_stack">>
    /\ ~probe.ops[1].waiter_error

\* the statement of provision_server that follows each of its statements
NextStatement ==
    [mkdir |-> "props", props |-> "eula", eula |-> "start_script",
     start_script |-> "stop_script", stop_script |-> "unit"]
\* the file under the server folder that a statement of provision_server handles
StatementFile ==
    [props |-> "server.properties", eula |-> "eula.txt",
     start_script |-> "start-minecraft.sh", stop_script |-> "stop-minecraft.sh"]
\* a step writes the unit definition of an id
UnitWritten(id) == unit_path(id) \in ChangedFiles /\ unit_path(id) \in DOMAIN fs'

\* C22: provision_server goes through its statements in the fixed order
\* directory, properties, license marker, start script, stop script, unit; each
\* statement changes nothing but its own artifact of the current entry; and a
\* unit definition is written only by the last statement, when the directory,
\* the property file, the license marker and both scripts of that entry are there.
C22_UnitIsWrittenLast ==
    [][ /\ (pc' \in ProvisionPcs /\ pc' # pc) =>
              IF pc \in DOMAIN NextStatement THEN pc' = NextStatement[pc]
              ELSE pc = "loop" /\ pc' = "mkdir"
        /\ pc = "mkdir" => ChangedFiles = {} /\ ChangedDirs \subseteq {folder_of(cur)}
        /\ pc \in DOMAIN StatementFile =>
              /\ ChangedDirs = {}
              /\ ChangedFiles \subseteq {server_file(folder_of(cur), StatementFile[pc])}
        /\ pc = "unit" =>
              /\ ChangedDirs = {}
              /\ ChangedFiles \subseteq {unit_path(cur)}
              /\ pc' \in {"loop", "done"}
        /\ \A id \in Ids :
              UnitWritten(id) =>
                 /\ pc = "unit" /\ cur = id
                 /\ folder_of(id) \in DOMAIN dirs
                 /\ \A n \in {"server.properties", "eula.txt", "start-minecraft.sh",
                              "stop-minecraft.sh"} :
                       server_file(folder_of(id), n) \in DOMAIN fs ]_vars

C22_Witness ==
    /\ pc = "loop"
    /\ \E id \in Reached :
          /\ Log("info", "Wrote file", "", unit_path(id)) \in log
          /\ id \in DOMAIN config.servers
          /\ server_file(folder_of(id), "stop-minecraft.sh") \in DOMAIN fs

\* the systemctl daemon-reload requests of this run
Reloads == { i \in CallsTo("systemctl") : calls[i].verb = "daemon-reload" }

\* C23: a run that is not a dry-run and completes has requested daemon-reload
\* exactly once, as its last command; the request is made when the for loop has
\* visited every id and no unit file is left for stale cleanup to look at; a
\* dry-run never requests it.
C23_ReloadOnceAfterCleanup ==
    [][ /\ Completed' => Cardinality(Reloads') = 1 /\ Len(calls') \in Reloads'
        /\ args.read_only => Reloads' = {}
        /\ Reloads' \ Reloads # {} =>
              /\ pc = "cleanup" /\ pc' = "done"
              /\ todo = {} /\ cur = NoId
              /\ stale_todo = {} ]_vars

C23_Witness ==
    /\ Completed
    /\ Reached # {}
    /\ \E i \in CallsTo("systemctl") : calls[i].verb = "disable --now"
    /\ Cardinality(Reloads) = 1

\* the folder in the WorkingDirectory line of a unit file
unit_folder(f, u) == SubSeq(f[u].content[3], 4, Len(f[u].content[3]))
\* the values of server-port in the server.properties of a folder
server_ports(f, folder) ==
    IF server_file(folder, "server.properties") \in DOMAIN f
    THEN { t[3] : t \in { x \in PairsIn(f[server_file(folder, "server.properties")].content) :
                             x[2] = KEY_SERVER_PORT } }
    ELSE {}

\* C24: after any sequence of completed runs that write, on documents that
\* change from run to run and with the ids visited in any order, no two unit
\* files on the host belong to servers whose written server-port is the same.
C24_UnitsOnHostHaveDistinctPorts ==
    (pc = "done" /\ exit_code = 0 /\ ~args.read_only) =>
        \A u, v \in unit_files(fs) :
            u # v => server_ports(fs, unit_folder(fs, u)) \cap server_ports(fs, unit_folder(fs, v)) = {}

\* the files provision_server leaves in a server folder
DataFiles == {"server.properties", "eula.txt", "start-minecraft.sh", "stop-minecraft.sh"}
\* the unit files that name a working directory (a unit file whose write failed
\* after the file was opened is empty and names none)
UnitsWithFolder(f) == { u \in unit_files(f) : Len(f[u].content) >= 3 }
\* a server folder in which some but not all of the files are there
PartlyWritten(folder) ==
    /\ folder \in DOMAIN dirs
    /\ \E n \in DataFiles : server_file(folder, n) \notin DOMAIN fs

\* C25: from a host without generated artifacts, through any sequence of runs
\* that write, runs aborted by a failing write at any statement included,
\* every unit file that exists names a working directory that exists and holds
\* server.properties, eula.txt, start-minecraft.sh and stop-minecraft.sh.
C25_UnitImpliesServerData ==
    \A u \in UnitsWithFolder(fs) :
        /\ unit_folder(fs, u) \in DOMAIN dirs
        /\ \A n \in DataFiles : server_file(unit_folder(fs, u), n) \in DOMAIN fs

C25_Witness ==
    /\ runs = 2 /\ pc = "done" /\ exit_code = 1
    /\ UnitsWithFolder(fs) # {}
    /\ \E folder \in {F1, F2} : PartlyWritten(folder)

\* the step is one of cleanup_stale_services
CleanupStep == pc = "cleanup" /\ stale_todo' # stale_todo
\* the commands a step issues
NewCalls == { calls'[i] : i \in (Len(calls) + 1)..Len(calls') }

\* C26: cleanup_stale_services changes nothing but unit files whose id is not in
\* provisioned, and issues nothing but the disable request for them: every
\* directory and every file under the server root stays as it is, and so does
\* the unit file of every id of provisioned, skipped in this run or not.
C26_CleanupTouchesOnlyStaleUnits ==
    [][CleanupStep =>
          /\ dirs' = dirs
          /\ \A p \in ChangedFiles :
                p \in unit_files(fs) /\ ~in_provisioned(srv_id_of(p), config.provisioned)
          /\ \A id \in config.provisioned : unit_path(id) \notin ChangedFiles
          /\ \A c \in NewCalls :
                /\ c.prog = "systemctl" /\ c.verb = "disable --now"
                /\ \A id \in config.provisioned : c.arg # str_id(id) ]_vars

====
